---- MODULE Spec2Model ----
(***************************************************************************)
(* Model of mrf/task.py: the tile scheduler MrfTileMode.run (tiling        *)
(* decision, tile grid, per-tile cut / rebin / MRF / trim loops, stitch    *)
(* and final combination) together with the files MrfTask.run writes for   *)
(* one tile.                                                               *)
(*                                                                         *)
(* Conventions.  Pixel quantities are integers.  The overlap fraction is   *)
(* kept in percent (overlap = 25 stands for 0.25), a centre 0.5*(a+b) is   *)
(* kept doubled (a+b), and an angular size is pixels * cd11.  A file is    *)
(* its path, built as the f-strings of the source build it.                *)
(***************************************************************************)
EXTENDS Integers, Sequences, FiniteSets, TLC

VARIABLES
    pc,             \* position of MrfTileMode.run
    max_size,       \* parameter max_size
    overlap,        \* parameter overlap, in percent
    hdr_g,          \* <<NAXIS1, NAXIS2>> of the g-band high-res header
    hdr_r,          \* <<NAXIS1, NAXIS2>> of the r-band high-res header
    lowres_cols,    \* high-res columns [0, lowres_cols) the low-res image covers
    tilemode,       \* "undecided", "Tiled" or "NotTiled"
    master_band,    \* "g" or "r" ("none" before the decision)
    highres_x, highres_y,
    N_x, N_y, N_tiles, len_x, len_y,
    skip_cut_tile,  \* parameter skip_cut_tile
    i,              \* index of the running loop
    j, skipped,     \* tiles created / tiles without overlap
    tiles_xcen, tiles_ycen, tiles_xlen, tiles_ylen,
    bad_tiles,      \* the list bad_tiles
    result,         \* result[k]: how task.run ended for tile k
    files,          \* paths written by this run (the directory starts without outputs)
    trim_used,      \* centre and size each trim step cut with
    stitch,         \* what the two _stitch calls did
    executed,       \* stages that have run
    error,          \* the exception that ended the run
    task            \* the locals of one stage of MrfTask.run, when it is looked at alone

vars == << pc, max_size, overlap, hdr_g, hdr_r, lowres_cols, tilemode,
           master_band, highres_x, highres_y, N_x, N_y, N_tiles, len_x, len_y,
           skip_cut_tile, i, j, skipped, tiles_xcen, tiles_ycen, tiles_xlen,
           tiles_ylen, bad_tiles, result, files, trim_used, stitch, executed,
           error, task >>

----------------------------------------------------------------------------
(* Bounds of the model and the inputs drawn in Init.                       *)

\* At most MaxFail tile pipelines fail in one run.
MaxFail == 1

\* Frames tried against max_size = 6 (SmallFrames) and against the default
\* max_size = 8000 (BigFrames).
SmallFrames == {8, 9, 12}
BigFrames == {7999, 12001}
Overlaps == {0, 49}
PartialCols == {4}
PixScales == {2}

\* The names config gives.
target_name == "tgt"
band == "g"
high_res_source == "decals"
tile_dir == "./Images/tile/"

NoError == [kind |-> "none", stage |-> "none", index |-> -1]
Raise(kind, stage, idx) == [kind |-> kind, stage |-> stage, index |-> idx]

----------------------------------------------------------------------------
(* Arithmetic of the grid.                                                 *)

Min(a, b) == IF a <= b THEN a ELSE b
Max(a, b) == IF a >= b THEN a ELSE b

\* np.ceil(a / b) for a >= 0, b > 0
CeilDiv(a, b) == (a + b - 1) \div b

\* Mutant of NeedsTiling: the safety factor 1.5 is dropped.
NeedsTiling_NoFactor(hx, hy, ms) == hx >= ms \/ hy >= ms

\* highres_x >= 1.5 * max_size or highres_y >= 1.5 * max_size
NeedsTiling(hx, hy, ms) == 2 * hx >= 3 * ms \/ 2 * hy >= 3 * ms

\* np.ceil((1. + 2.*overlap) * highres / max_size)
TilesAlong(hr, ov, ms) == CeilDiv((100 + 2 * ov) * hr, 100 * ms)

\* int(overlap * len)
Margin(ov, len) == (ov * len) \div 100

\* The band whose frame defines the tiles, and that frame's size.
MasterOf(g, r) ==
    IF r[1] = g[1] /\ r[2] = g[2] THEN "g"
    ELSE IF r[1] < g[1] /\ r[2] < g[2] THEN "r"
    ELSE IF r[1] > g[1] /\ r[2] > g[2] THEN "g"
    ELSE IF r[1] * r[2] < g[1] * g[2] THEN "r"
    ELSE "g"

\* Grid coordinates of tile t.
x_index(t) == t % N_x
y_index(t) == t \div N_x

\* The box of tile t before the overlap is added.
NonOverlapBox(t) ==
    LET xmin == x_index(t) * len_x
        ymin == y_index(t) * len_y
    IN  [xmin |-> xmin, ymin |-> ymin,
         xmax |-> Min(highres_x - 1, xmin + len_x),
         ymax |-> Min(highres_y - 1, ymin + len_y)]

\* The box of tile t after the overlap is added.
OverlapBox(t) ==
    LET b == NonOverlapBox(t)
    IN  [xmin |-> Max(0, b.xmin - Margin(overlap, len_x)),
         ymin |-> Max(0, b.ymin - Margin(overlap, len_y)),
         xmax |-> Min(highres_x - 1, b.xmax + Margin(overlap, len_x)),
         ymax |-> Min(highres_y - 1, b.ymax + Margin(overlap, len_y))]

\* x_center, y_center (doubled) and x_size, y_size of a box, in pixels.
Cen2X(b) == b.xmin + b.xmax
Cen2Y(b) == b.ymin + b.ymax
SizeX(b) == b.xmax - b.xmin
SizeY(b) == b.ymax - b.ymin

\* np.abs(hdu_g.header["CD1_1"]): the angle one high-res pixel spans.
cd11 == CHOOSE s \in PixScales : TRUE

\* Pixel (px, py) lies in a cutout of the given doubled centre and size: the
\* cutout holds the pixels from centre - size/2 up to, not including,
\* centre + size/2.
InCutout(xcen2, ycen2, xlen, ylen, px, py) ==
    /\ xcen2 - xlen <= 2 * px /\ 2 * px < xcen2 + xlen
    /\ ycen2 - ylen <= 2 * py /\ 2 * py < ycen2 + ylen

InBox(b, px, py) == InCutout(Cen2X(b), Cen2Y(b), SizeX(b), SizeY(b), px, py)

\* Cutout2D of the low-res image raises NoOverlapError.
NoOverlap(b) == b.xmin >= lowres_cols

----------------------------------------------------------------------------
(* File names.                                                             *)

LowresTile(k) == tile_dir \o target_name \o "-lowres-" \o band \o "-tile-" \o ToString(k) \o ".fits"
HiresTile(filt, k) == tile_dir \o target_name \o "-" \o high_res_source \o "-" \o filt \o "-tile-" \o ToString(k) \o ".fits"
BinnedTile(filt, k) == tile_dir \o target_name \o "-" \o high_res_source \o "-binned-" \o filt \o "-tile-" \o ToString(k) \o ".fits"
OutputName(k) == tile_dir \o target_name \o "-" \o band \o "-tile-" \o ToString(k)
HalosubFile(k) == OutputName(k) \o "_halosub.fits"
MaskFile(k) == OutputName(k) \o "_mask.fits"
FinalTile(k) == tile_dir \o target_name \o "_" \o band \o "_final_tile_" \o ToString(k) \o ".fits"
FinalTileMask(k) == tile_dir \o target_name \o "_" \o band \o "_final_tile_" \o ToString(k) \o "_mask.fits"
PS1File == "./PS1-" \o target_name \o "-field.fits"
CropFiles == {"./Images/" \o target_name \o "-df-" \o band \o ".fits",
              "./Images/" \o target_name \o "-" \o high_res_source \o "-g.fits",
              "./Images/" \o target_name \o "-" \o high_res_source \o "-r.fits"}

----------------------------------------------------------------------------
(* Initial state: the arguments of run and the files it finds.             *)

FramePairs ==
    {<<6, <<x, y>>>> : x \in SmallFrames, y \in SmallFrames}
    \cup {<<8000, <<x, y>>>> : x \in BigFrames, y \in BigFrames}

\* Sizes of the r-band frame tried with a g-band frame g.
RSizes(g) == {g, <<g[1] - 1, g[2] - 1>>, <<g[1] + 1, g[2] + 1>>,
              <<g[1] - 1, g[2] + 1>>, <<g[2], g[1]>>}

\* No stage of MrfTask.run is looked at: MrfTileMode.run sees only how each
\* task.run ends.
NoTask == [stage |-> "none"]

Init ==
    /\ pc = "crop"
    /\ \E fp \in FramePairs :
          /\ max_size = fp[1]
          /\ hdr_g = fp[2]
          /\ hdr_r \in RSizes(fp[2])
          /\ lowres_cols \in PartialCols \cup {fp[2][1] + 2}
    /\ overlap \in Overlaps
    /\ tilemode = "undecided"
    /\ master_band = "none"
    /\ highres_x = 0 /\ highres_y = 0
    /\ N_x = 0 /\ N_y = 0 /\ N_tiles = 0 /\ len_x = 0 /\ len_y = 0
    /\ skip_cut_tile = FALSE
    /\ i = 0 /\ j = 0 /\ skipped = 0
    /\ tiles_xcen = <<>> /\ tiles_ycen = <<>>
    /\ tiles_xlen = <<>> /\ tiles_ylen = <<>>
    /\ bad_tiles = <<>>
    /\ result = <<>>
    /\ files = {}
    /\ trim_used = <<>>
    /\ stitch = <<>>
    /\ executed = {}
    /\ error = NoError
    /\ task = NoTask


----------------------------------------------------------------------------
(* The files MrfTask.run writes when MrfTileMode.run calls it for tile k   *)
(* (skip_resize = skip_SE = False, wide_psf = True, skip_mast = True).     *)
(* The stages are: 1 register, 2 flux model, 3 kernel and residual,        *)
(* 4 PSF stack, 5 halo subtraction, 6 cleaning and plot.                   *)

TaskStages == 6

StageFiles(s, output_name) ==
    CASE s = 1 -> {"_lowres_3.fits", "_hires_b_reproj.fits", "_hires_r_reproj.fits"}
      [] s = 2 -> {"_colratio.fits", "_colcorrect.fits", "_hires_3.fits",
                   "_hires_obj_cat.fits", "_bright_stars_3.fits", "_seg_3.fits",
                   "_hires_fluxmod.fits"}
      [] s = 3 -> {"_kernel_median.fits", "_lowres_model_3.fits", "_res_3.fits",
                   "_lowres_model.fits", output_name \o "_res.fits"}
      [] s = 4 -> {"_bright_star_cat.fits", "_median_psf.fits", "_error_psf.fits",
                   "_stack_bright_stars.fits"}
      [] s = 5 -> {"./wide_psf.fits", "_bright_star_cat.fits",
                   "./PS1-normalization.png", "_lowres_halos.fits",
                   output_name \o "_halosub.fits",
                   output_name \o "_model_halos.fits"}
      [] s = 6 -> {output_name \o "_final.fits", output_name \o "_mask.fits",
                   output_name \o "_result.png"}

\* How a tile's task.run can end, and the stages it completed by then.
Outcomes == {"ok", "GalSimValueError", "AttributeError", "HTTPError", "OtherError"}

StagesDone(outcome) ==
    CASE outcome = "ok" -> 6
      [] outcome = "AttributeError" -> 2
      [] outcome = "GalSimValueError" -> 4
      [] outcome = "HTTPError" -> 4
      [] outcome = "OtherError" -> 1

\* Paths written by the task.run of tile k that ended with outcome.
TaskWrites(k, outcome) ==
    UNION {StageFiles(s, OutputName(k)) : s \in 1..StagesDone(outcome)}

\* The exceptions the per-tile loop catches.
Caught == {"GalSimValueError", "AttributeError", "HTTPError"}

----------------------------------------------------------------------------
(* The file system.                                                        *)

\* The run starts in a working directory that holds its inputs only; a path
\* exists once this run has written it.
Exists(p) == p \in files

Fail(kind, stage, idx) ==
    /\ pc' = "failed"
    /\ error' = Raise(kind, stage, idx)

----------------------------------------------------------------------------
(* MrfTileMode.run up to the end of the tile-cutting loop.                 *)

Frozen == << max_size, overlap, hdr_g, hdr_r, lowres_cols, task >>
GridVars == << N_x, N_y, N_tiles, len_x, len_y >>
TileLists == << tiles_xcen, tiles_ycen, tiles_xlen, tiles_ylen >>

\* Crop the low-res and the two high-res images to cutout_size.
Crop ==
    /\ pc = "crop"
    /\ files' = files \cup CropFiles
    /\ executed' = executed \cup {"crop"}
    /\ pc' = "ps1"
    /\ UNCHANGED << Frozen, tilemode, master_band, highres_x, highres_y, GridVars,
                    skip_cut_tile, i, j, skipped, TileLists, bad_tiles, result,
                    trim_used, stitch, error >>

\* Download the Pan-STARRS catalog, or find the saved one.  The query is not
\* guarded; the message of the failing assert names an undefined variable.
PanSTARRS ==
    /\ pc = "ps1"
    /\ \E skip_mast \in BOOLEAN, answered \in BOOLEAN :
          IF ~skip_mast
          THEN IF answered
               THEN /\ files' = files \cup {PS1File}
                    /\ executed' = executed \cup {"ps1"}
                    /\ pc' = "decide"
                    /\ error' = error
               ELSE /\ Fail("HTTPError", "ps1", -1)
                    /\ UNCHANGED << files, executed >>
          ELSE /\ answered
               /\ IF Exists(PS1File)
                  THEN pc' = "decide" /\ error' = error
                  ELSE Fail("NameError", "ps1", -1)
               /\ UNCHANGED << files, executed >>
    /\ UNCHANGED << Frozen, tilemode, master_band, highres_x, highres_y, GridVars,
                    skip_cut_tile, i, j, skipped, TileLists, bad_tiles, result,
                    trim_used, stitch >>

\* Mutant of NotTiledExit: the pipeline runs once on the whole frame.
NotTiledExit_RunsPipeline ==
    /\ result' = <<"ok">>
    /\ pc' = "done" /\ error' = error

\* What follows the decision NotTiled: the assert fails, or, when asserts
\* are compiled out, the bare return is reached.
NotTiledExit ==
    /\ result' = result
    /\ \/ Fail("AssertionError", "decide", -1)
       \/ pc' = "done" /\ error' = error

\* Assess the size of the high-res frame and decide the tiling state.
Decide ==
    /\ pc = "decide"
    /\ IF NeedsTiling(hdr_g[1], hdr_g[2], max_size)
       THEN /\ tilemode' = "Tiled"
            /\ master_band' = MasterOf(hdr_g, hdr_r)
            /\ highres_x' = IF MasterOf(hdr_g, hdr_r) = "r" THEN hdr_r[1] ELSE hdr_g[1]
            /\ highres_y' = IF MasterOf(hdr_g, hdr_r) = "r" THEN hdr_r[2] ELSE hdr_g[2]
            /\ pc' = "grid"
            /\ error' = error
            /\ result' = result
       ELSE /\ tilemode' = "NotTiled"
            /\ master_band' = master_band
            /\ highres_x' = hdr_g[1]
            /\ highres_y' = hdr_g[2]
            /\ NotTiledExit
    /\ UNCHANGED << Frozen, GridVars, skip_cut_tile, i, j, skipped, TileLists,
                    bad_tiles, files, trim_used, stitch, executed >>

\* Number of tiles along each axis and their size.
Grid ==
    /\ pc = "grid"
    /\ N_x' = TilesAlong(highres_x, overlap, max_size)
    /\ N_y' = TilesAlong(highres_y, overlap, max_size)
    /\ N_tiles' = N_x' * N_y'
    /\ len_x' = CeilDiv(highres_x, N_x')
    /\ len_y' = CeilDiv(highres_y, N_y')
    /\ skip_cut_tile' \in BOOLEAN
    /\ i' = 0 /\ j' = 0 /\ skipped' = 0
    /\ pc' = "cut"
    /\ UNCHANGED << Frozen, tilemode, master_band, highres_x, highres_y, TileLists,
                    bad_tiles, result, files, trim_used, stitch, executed, error >>

\* One pass of the loop over the grid: the tile's box, its cutouts, and the
\* centre and size kept for the trim stage.
CutTile ==
    /\ pc = "cut"
    /\ i < N_tiles
    /\ LET b == OverlapBox(i)
       IN  IF ~skip_cut_tile /\ NoOverlap(b)
           THEN /\ skipped' = skipped + 1
                /\ UNCHANGED << j, TileLists, files >>
           ELSE /\ files' = IF skip_cut_tile THEN files
                            ELSE files \cup {LowresTile(j), HiresTile("g", j), HiresTile("r", j)}
                /\ tiles_xcen' = Append(tiles_xcen, Cen2X(b))
                /\ tiles_ycen' = Append(tiles_ycen, Cen2Y(b))
                /\ tiles_xlen' = Append(tiles_xlen, SizeX(b) * cd11)
                /\ tiles_ylen' = Append(tiles_ylen, SizeY(b) * cd11)
                /\ j' = j + 1
                /\ skipped' = skipped
    /\ i' = i + 1
    /\ executed' = executed \cup {"cut"}
    /\ UNCHANGED << pc, Frozen, tilemode, master_band, highres_x, highres_y, GridVars,
                    skip_cut_tile, bad_tiles, result, trim_used, stitch, error >>

\* The loop over the grid is exhausted; skip_rebin is read.
CutDone ==
    /\ pc = "cut"
    /\ i = N_tiles
    /\ \E skip_rebin \in BOOLEAN : pc' = IF skip_rebin THEN "mrf_enter" ELSE "rebin"
    /\ i' = 0
    /\ UNCHANGED << Frozen, tilemode, master_band, highres_x, highres_y, GridVars,
                    skip_cut_tile, j, skipped, TileLists, bad_tiles, result, files,
                    trim_used, stitch, executed, error >>

----------------------------------------------------------------------------
(* The rebin loop and the per-tile MRF loop.                               *)

Geometry == << Frozen, tilemode, master_band, highres_x, highres_y, GridVars,
               skip_cut_tile, j, skipped, TileLists >>

\* Bin the two high-res cutouts of tile i and smooth them.
Rebin ==
    /\ pc = "rebin"
    /\ i < N_tiles - skipped
    /\ executed' = executed \cup {"rebin"}
    /\ IF ~Exists(HiresTile("g", i))
       THEN /\ Fail("FileNotFoundError", "rebin", i)
            /\ UNCHANGED << files, i >>
       ELSE IF ~Exists(HiresTile("r", i))
       THEN /\ Fail("FileNotFoundError", "rebin", i)
            /\ files' = files \cup {BinnedTile("g", i)}
            /\ i' = i
       ELSE /\ files' = files \cup {BinnedTile("g", i), BinnedTile("r", i)}
            /\ i' = i + 1
            /\ UNCHANGED << pc, error >>
    /\ UNCHANGED << Geometry, bad_tiles, result, trim_used, stitch >>

RebinDone ==
    /\ pc = "rebin"
    /\ i >= N_tiles - skipped
    /\ pc' = "mrf_enter"
    /\ UNCHANGED << Geometry, i, bad_tiles, result, files, trim_used, stitch,
                    executed, error >>

\* skip_mrf is read; the loop starts with an empty bad_tiles.
MrfEnter ==
    /\ pc = "mrf_enter"
    /\ \E skip_mrf \in BOOLEAN : pc' = IF skip_mrf THEN "trim_enter" ELSE "mrf"
    /\ i' = 0
    /\ bad_tiles' = <<>>
    /\ UNCHANGED << Geometry, result, files, trim_used, stitch, executed, error >>

Failures(r) == Cardinality({k \in 1..Len(r) : r[k] # "ok"})

\* Mutant of Handle: AttributeError has no except clause.
Handle_NoAttributeError(outcome, k) ==
    IF outcome = "ok"
    THEN /\ bad_tiles' = bad_tiles
         /\ i' = k + 1
         /\ UNCHANGED << pc, error >>
    ELSE IF outcome \in Caught \ {"AttributeError"}
    THEN /\ bad_tiles' = Append(bad_tiles, k)
         /\ i' = k + 1
         /\ UNCHANGED << pc, error >>
    ELSE /\ Fail(outcome, "mrf", k)
         /\ UNCHANGED << bad_tiles, i >>

\* What the try statement around task.run does with the way the run ended.
Handle(outcome, k) ==
    IF outcome = "ok"
    THEN /\ bad_tiles' = bad_tiles
         /\ i' = k + 1
         /\ UNCHANGED << pc, error >>
    ELSE IF outcome \in Caught
    THEN /\ bad_tiles' = Append(bad_tiles, k)
         /\ i' = k + 1
         /\ UNCHANGED << pc, error >>
    ELSE /\ Fail(outcome, "mrf", k)
         /\ UNCHANGED << bad_tiles, i >>

\* Run the single-frame pipeline on tile i.
MrfTile ==
    /\ pc = "mrf"
    /\ i < N_tiles - skipped
    /\ executed' = executed \cup {"mrf"}
    /\ IF \E f \in {LowresTile(i), BinnedTile("g", i), BinnedTile("r", i), PS1File} : ~Exists(f)
       THEN /\ Fail("FileNotFoundError", "mrf", i)
            /\ UNCHANGED << bad_tiles, result, files, i >>
       ELSE \E outcome \in Outcomes :
               /\ outcome # "ok" => Failures(result) < MaxFail
               /\ result' = Append(result, outcome)
               /\ files' = files \cup TaskWrites(i, outcome)
               /\ Handle(outcome, i)
    /\ UNCHANGED << Geometry, trim_used, stitch >>

MrfDone ==
    /\ pc = "mrf"
    /\ i >= N_tiles - skipped
    /\ pc' = "trim_enter"
    /\ UNCHANGED << Geometry, i, bad_tiles, result, files, trim_used, stitch,
                    executed, error >>

----------------------------------------------------------------------------
(* The trim loop.                                                          *)

\* skip_trim is read.
TrimEnter ==
    /\ pc = "trim_enter"
    /\ \E skip_trim \in BOOLEAN : pc' = IF skip_trim THEN "stitch_image" ELSE "trim"
    /\ i' = 0
    /\ UNCHANGED << Geometry, bad_tiles, result, files, trim_used, stitch,
                    executed, error >>

\* The number of passes of the trim loop.
TrimCount == N_tiles

\* Trim the halo-subtracted image and the mask of tile i.
TrimTile ==
    /\ pc = "trim"
    /\ i < TrimCount
    /\ executed' = executed \cup {"trim"}
    /\ IF i >= Len(tiles_xcen)
       THEN /\ Fail("IndexError", "trim", i)
            /\ UNCHANGED << files, trim_used, i >>
       ELSE IF ~Exists(HalosubFile(i))
       THEN /\ Fail("FileNotFoundError", "trim", i)
            /\ UNCHANGED << files, trim_used, i >>
       ELSE IF ~Exists(MaskFile(i))
       THEN /\ Fail("FileNotFoundError", "trim", i)
            /\ files' = files \cup {FinalTile(i)}
            /\ UNCHANGED << trim_used, i >>
       ELSE /\ files' = files \cup {FinalTile(i), FinalTileMask(i)}
            /\ trim_used' = Append(trim_used,
                                   [xcen |-> tiles_xcen[i + 1], ycen |-> tiles_ycen[i + 1],
                                    xlen |-> tiles_xlen[i + 1], ylen |-> tiles_ylen[i + 1]])
            /\ i' = i + 1
            /\ UNCHANGED << pc, error >>
    /\ UNCHANGED << Geometry, bad_tiles, result, stitch >>

TrimDone ==
    /\ pc = "trim"
    /\ i >= TrimCount
    /\ pc' = "stitch_image"
    /\ UNCHANGED << Geometry, i, bad_tiles, result, files, trim_used, stitch,
                    executed, error >>

----------------------------------------------------------------------------
(* _stitch, observed at one pixel of the reference frame.                  *)

\* range(16): the tile indices whose files are handed to _stitch.
ListedTiles == 16

StitchMethods == {"swarp", "reproject", "montage"}

FinalName(imgtype, k) == IF imgtype = "mask" THEN FinalTileMask(k) ELSE FinalTile(k)

\* filename_list
FilenameList(imgtype) == {FinalName(imgtype, k) : k \in 0..(ListedTiles - 1)}

\* The file _stitch writes.
StitchFile(imgtype) ==
    IF imgtype = "mask"
    THEN tile_dir \o target_name \o "-stitch-mask_" \o band \o ".fits"
    ELSE tile_dir \o target_name \o "-stitch_" \o band \o ".fits"

FinalFile == tile_dir \o target_name \o "-final-" \o band \o ".fits"

RECURSIVE SumOver(_, _)
SumOver(f, S) ==
    IF S = {} THEN 0
    ELSE LET x == CHOOSE x \in S : TRUE IN f[x] + SumOver(f, S \ {x})

RECURSIVE SortVals(_, _)
SortVals(f, S) ==
    IF S = {} THEN <<>>
    ELSE LET x == CHOOSE x \in S : \A y \in S : f[x] <= f[y]
         IN  <<f[x]>> \o SortVals(f, S \ {x})

\* Values are fractions <<numerator, denominator>>; <<0, 0>> is NaN.
MeanOf(f, S) == <<SumOver(f, S), Cardinality(S)>>
SumOf(f, S) == <<SumOver(f, S), 1>>
MedianOf(f, S) ==
    LET n == Cardinality(S)
        v == SortVals(f, S)
    IN  IF n = 0 THEN <<0, 1>>
        ELSE IF n % 2 = 1 THEN <<v[(n + 1) \div 2], 1>>
        ELSE <<v[n \div 2] + v[n \div 2 + 1], 2>>

\* combine_type of _stitch
CombineType(method, imgtype) ==
    IF method = "swarp"
    THEN IF imgtype = "mask" THEN "SUM" ELSE "MEDIAN"
    ELSE IF imgtype = "mask" THEN "sum" ELSE "mean"

Combined(ct, f, S) ==
    CASE ct = "MEDIAN" -> MedianOf(f, S)
      [] ct = "mean" -> MeanOf(f, S)
      [] OTHER -> SumOf(f, S)

\* What _stitch does to the co-added array before it is written.
PostProcess(method, imgtype, v) ==
    IF method = "swarp" /\ imgtype = "mask"
    THEN IF v[1] > 0 THEN <<1, 1>> ELSE <<0, 1>>
    ELSE v

\* Listed files that exist, and those of them that cover pixel pix.
Present(imgtype) == {k \in 0..(ListedTiles - 1) : Exists(FinalName(imgtype, k))}

Contributors(imgtype, pix) ==
    {k \in Present(imgtype) :
        /\ k < Len(tiles_xcen)
        /\ InCutout(tiles_xcen[k + 1], tiles_ycen[k + 1],
                    tiles_xlen[k + 1] \div cd11, tiles_ylen[k + 1] \div cd11,
                    pix[1], pix[2])}

SamplePixels == {<<0, 0>>, <<len_x, len_y>>, <<highres_x - 1, highres_y - 1>>}

StitchRecord(imgtype, method, pix, S, f, written) ==
    [imgtype |-> imgtype, method |-> method, listed |-> FilenameList(imgtype),
     pixel |-> pix, combine_type |-> CombineType(method, imgtype),
     tiles |-> S, vals |-> f, written |-> written,
     out |-> PostProcess(method, imgtype, Combined(CombineType(method, imgtype), f, S))]

\* One call of _stitch: tile values f at pixel pix, then pc = next.
DoStitch(imgtype, method, pix, f, next) ==
    LET all == Present(imgtype) = 0..(ListedTiles - 1)
        S == Contributors(imgtype, pix)
    IN  IF method = "reproject"
        THEN IF all
             THEN /\ stitch' = Append(stitch, StitchRecord(imgtype, method, pix, S, f, TRUE))
                  /\ files' = files \cup {StitchFile(imgtype)}
                  /\ pc' = next /\ error' = error
             ELSE /\ Fail("FileNotFoundError", "stitch", -1)
                  /\ UNCHANGED << stitch, files >>
        ELSE \E tolerant \in BOOLEAN :
                /\ all => tolerant
                /\ IF all \/ (tolerant /\ Present(imgtype) # {})
                   THEN /\ stitch' = Append(stitch, StitchRecord(imgtype, method, pix, S, f, TRUE))
                        /\ files' = files \cup {StitchFile(imgtype)}
                        /\ pc' = next /\ error' = error
                   ELSE IF imgtype = "mask"
                   THEN /\ Fail("FileNotFoundError", "stitch", -1)
                        /\ UNCHANGED << stitch, files >>
                   ELSE /\ stitch' = Append(stitch, StitchRecord(imgtype, method, pix, {}, f, FALSE))
                        /\ files' = files
                        /\ pc' = next /\ error' = error

\* stitch_method is checked, then the image tiles are stitched.
StitchImage ==
    /\ pc = "stitch_image"
    /\ \E stitch_method \in StitchMethods :
          IF ~(stitch_method = "swarp" \/ stitch_method = "reproject")
          THEN /\ Fail("ValueError", "stitch", -1)
               /\ UNCHANGED << stitch, files, executed >>
          ELSE /\ executed' = executed \cup {"stitch"}
               /\ \E pix \in SamplePixels :
                     \E outlier \in Contributors("image", pix) \cup {-1} :
                        DoStitch("image", stitch_method, pix,
                                 [k \in Contributors("image", pix) |->
                                     IF k = outlier THEN 5 ELSE 1],
                                 "stitch_mask")
    /\ UNCHANGED << Geometry, i, bad_tiles, result, trim_used >>

\* The mask tiles are stitched with the same method.
StitchMask ==
    /\ pc = "stitch_mask"
    /\ LET pix == stitch[1].pixel
       IN  \E masked \in SUBSET Contributors("mask", pix) :
              DoStitch("mask", stitch[1].method, pix,
                       [k \in Contributors("mask", pix) |->
                           IF k \in masked THEN 1 ELSE 0],
                       "combine")
    /\ UNCHANGED << Geometry, i, bad_tiles, result, trim_used, executed >>

\* Combine mask with image: img * (~msk).
CombineMask ==
    /\ pc = "combine"
    /\ IF Exists(StitchFile("image")) /\ Exists(StitchFile("mask"))
       THEN /\ stitch' = Append(stitch,
                    [imgtype |-> "final",
                     out |-> IF stitch[2].out[1] # 0 THEN <<0, 1>> ELSE stitch[1].out])
            /\ files' = files \cup {FinalFile}
            /\ executed' = executed \cup {"combine"}
            /\ pc' = "done" /\ error' = error
       ELSE /\ Fail("FileNotFoundError", "combine", -1)
            /\ UNCHANGED << stitch, files, executed >>
    /\ UNCHANGED << Geometry, i, bad_tiles, result, trim_used >>

----------------------------------------------------------------------------
Next ==
    \/ Crop
    \/ PanSTARRS
    \/ Decide
    \/ Grid
    \/ CutTile
    \/ CutDone
    \/ Rebin
    \/ RebinDone
    \/ MrfEnter
    \/ MrfTile
    \/ MrfDone
    \/ TrimEnter
    \/ TrimTile
    \/ TrimDone
    \/ StitchImage
    \/ StitchMask
    \/ CombineMask

Spec == Init /\ [][Next]_vars

\* What MrfTileMode.run hands back: it has only the bare return of the
\* NotTiled branch and the end of the function, so the value is None, a
\* result with no fields.
ReturnValue == <<>>

----------------------------------------------------------------------------
(* Floating-point pixels.  A pixel is <<n, d>>: the rational n/d when      *)
(* d > 0, NaN when <<0, 0>>, +inf when <<1, 0>>, -inf when <<-1, 0>>.      *)
(* Rounding and the sign of zero are left out.                             *)

NaN == <<0, 0>>
PInf == <<1, 0>>
NInf == <<-1, 0>>
Num(n) == <<n, 1>>

Sgn(n) == IF n > 0 THEN 1 ELSE IF n < 0 THEN -1 ELSE 0
Abs(n) == IF n < 0 THEN -n ELSE n

RECURSIVE Gcd(_, _)
Gcd(a, b) == IF b = 0 THEN a ELSE Gcd(b, a % b)

\* The rational n/d (d # 0) in lowest terms with a positive denominator.
Frac(n, d) ==
    LET g == Gcd(Abs(n), Abs(d))
    IN  <<(Sgn(d) * n) \div g, Abs(d) \div g>>

\* np.isnan, np.isinf
isnan(x) == x = NaN
isinf(x) == x[2] = 0 /\ x[1] # 0
IsFinite(x) == x[2] > 0

\* x != 0
NonZero(x) == ~(IsFinite(x) /\ x[1] = 0)

\* x / y
FDiv(x, y) ==
    IF isnan(x) \/ isnan(y) THEN NaN
    ELSE IF isinf(x) THEN (IF isinf(y) THEN NaN
                           ELSE IF y[1] < 0 THEN <<-x[1], 0>> ELSE x)
    ELSE IF isinf(y) THEN Num(0)
    ELSE IF y[1] = 0 THEN <<Sgn(x[1]), 0>>
    ELSE Frac(x[1] * y[2], x[2] * y[1])

\* x * y
FMul(x, y) ==
    IF isnan(x) \/ isnan(y) THEN NaN
    ELSE IF isinf(x) \/ isinf(y) THEN <<Sgn(x[1]) * Sgn(y[1]), 0>>
    ELSE Frac(x[1] * y[1], x[2] * y[2])

\* x + y for finite x, y
FAdd(x, y) == Frac(x[1] * y[2] + y[1] * x[2], x[2] * y[2])

\* x < y: false when either is NaN
FLess(x, y) ==
    IF isnan(x) \/ isnan(y) THEN FALSE
    ELSE IF isinf(x) THEN x = NInf /\ y # NInf
    ELSE IF isinf(y) THEN y = PInf
    ELSE x[1] * y[2] < y[1] * x[2]

\* np.power(x, k) for an exponent k = 0, 1, 2, ...
RECURSIVE FPow(_, _)
FPow(x, k) == IF k = 0 THEN Num(1) ELSE FMul(x, FPow(x, k - 1))

\* The entries of array a at the indices in S, in ascending order.
RECURSIVE SortF(_, _)
SortF(a, S) ==
    IF S = {} THEN <<>>
    ELSE LET m == CHOOSE k \in S : \A l \in S : ~FLess(a[l], a[k])
         IN  <<a[m]>> \o SortF(a, S \ {m})

\* np.nanmedian of the entries of a at the indices in S
nanmedian(a, S) ==
    LET T == {k \in S : ~isnan(a[k])}
        v == SortF(a, T)
        n == Len(v)
    IN  IF n = 0 THEN NaN
        ELSE IF n % 2 = 1 THEN v[(n + 1) \div 2]
        ELSE IF isinf(v[n \div 2]) \/ isinf(v[n \div 2 + 1])
             THEN (IF v[n \div 2] = NInf /\ v[n \div 2 + 1] = PInf THEN NaN
                   ELSE IF isinf(v[n \div 2]) THEN v[n \div 2] ELSE v[n \div 2 + 1])
        ELSE FDiv(FAdd(v[n \div 2], v[n \div 2 + 1]), Num(2))

----------------------------------------------------------------------------
(* MrfTask.run, steps 2 to 7: registration, colour correction and the flux *)
(* model, on an image of NPix pixels in one row.                           *)

\* Pixels of the arrays of this stage.
NPix == 2

\* MrfTileMode.run stands still while a stage of MrfTask.run is looked at.
TileVars == << pc, max_size, overlap, hdr_g, hdr_r, lowres_cols, tilemode,
               master_band, highres_x, highres_y, N_x, N_y, N_tiles, len_x,
               len_y, skip_cut_tile, i, j, skipped, tiles_xcen, tiles_ycen,
               tiles_xlen, tiles_ylen, bad_tiles, result, files, trim_used,
               stitch, executed, error >>

NoTileRun ==
    /\ pc = "none"
    /\ max_size = 0 /\ overlap = 0
    /\ hdr_g = <<0, 0>> /\ hdr_r = <<0, 0>> /\ lowres_cols = 0
    /\ tilemode = "undecided" /\ master_band = "none"
    /\ highres_x = 0 /\ highres_y = 0
    /\ N_x = 0 /\ N_y = 0 /\ N_tiles = 0 /\ len_x = 0 /\ len_y = 0
    /\ skip_cut_tile = FALSE
    /\ i = 0 /\ j = 0 /\ skipped = 0
    /\ tiles_xcen = <<>> /\ tiles_ycen = <<>>
    /\ tiles_xlen = <<>> /\ tiles_ylen = <<>>
    /\ bad_tiles = <<>> /\ result = <<>> /\ files = {}
    /\ trim_used = <<>> /\ stitch = <<>> /\ executed = {}
    /\ error = NoError

\* config.lowres.band
Bands == {"g", "r", "i"}
\* Per-pixel flux estimates of Flux_Model
Fluxes == {NaN, PInf, Num(-1), Num(0), Num(1), Num(20)}
\* Pixels of the registered high-res images (NaN outside the footprint)
ImagePix == {NaN, Num(-1), Num(2)}
\* Pixels of _colratio.fits and _hires_3.fits as an earlier run left them
SavedRatios == {Num(0), Num(1)}
SavedPix == {NaN, Num(2)}
\* config.lowres.color_term
ColorTerms == {0, 1, 2}
\* config.fluxmodel.gaussian_threshold
Thresholds == {<<1, 16>>, <<1, 4>>, <<1, 2>>}

Arrays(V) == [1..NPix -> V]
Cells(W, H) == (0..(W - 1)) \X (0..(H - 1))

\* Gaussian2DKernel(smooth_radius), normalized: weight G[|dx|+1] * G[|dy|+1]
\* over KernelSum within KernelRadius of the centre.
KernelRadius == 1
G == <<2, 1>>
KernelWeight(dx, dy) ==
    IF Abs(dx) <= KernelRadius /\ Abs(dy) <= KernelRadius
    THEN G[Abs(dx) + 1] * G[Abs(dy) + 1]
    ELSE 0
KernelSum ==
    SumOver([d \in (-KernelRadius..KernelRadius) \X (-KernelRadius..KernelRadius)
                |-> KernelWeight(d[1], d[2])],
            (-KernelRadius..KernelRadius) \X (-KernelRadius..KernelRadius))

\* convolve(mask, kernel) at cell c, times KernelSum (boundary filled with 0);
\* M is the set of cells where the mask is 1.
ConvAt(M, c) == SumOver([m \in M |-> KernelWeight(m[1] - c[1], m[2] - c[2])], M)

\* Mutant of GrowMask: the threshold is compared with > instead of >=.
GrowMask_Strict(M, W, H, thr) ==
    {c \in Cells(W, H) : ConvAt(M, c) * thr[2] > thr[1] * KernelSum}

\* seg_mask = (convolve(mask, Gaussian2DKernel(r)) >= threshold)
GrowMask(M, W, H, thr) ==
    {c \in Cells(W, H) : ConvAt(M, c) * thr[2] >= thr[1] * KernelSum}

\* col_ratio = b_imflux / r_imflux; NaN and inf set to 0
ColRatio(b, r) ==
    [k \in 1..NPix |-> LET q == FDiv(b[k], r[k])
                       IN  IF isnan(q) \/ isinf(q) THEN Num(0) ELSE q]

\* median_col = np.nanmedian(col_ratio[col_ratio != 0])
MedianCol(cr) == nanmedian(cr, {k \in 1..NPix : NonZero(cr[k])})

\* fluxratio = col_ratio / median_col; values < 0.1 or > 10 set to 1
FluxRatio(cr, m) ==
    [k \in 1..NPix |-> LET q == FDiv(cr[k], m)
                       IN  IF FLess(q, <<1, 10>>) \/ FLess(Num(10), q) THEN Num(1) ELSE q]

\* col_correct = np.power(fluxratio, color_term)
ColCorrect(fr, color_term) == [k \in 1..NPix |-> FPow(fr[k], color_term)]

\* Mutant of ZeroNaN: the NaN pixels are left in the flux model.
ZeroNaN_Keep(x) == x

\* hires_fluxmod.image[np.isnan(hires_fluxmod.image)] = 0
ZeroNaN(x) == IF isnan(x) THEN Num(0) ELSE x

\* hires_fluxmod = seg_mask * hires_3.image, NaN set to 0
FluxMod(sm, h3) ==
    [k \in 1..NPix |-> ZeroNaN(FMul(IF <<k - 1, 0>> \in sm THEN Num(1) ELSE Num(0), h3[k]))]

FluxInit ==
    /\ NoTileRun
    /\ task \in [stage : {"flux"}, pc : {"resize"},
                 skip_resize : BOOLEAN, skip_SE : BOOLEAN, band : Bands,
                 col_ratio : {<<>>}, median_col : {NaN}, col_correct : {<<>>},
                 hires_3 : {<<>>}, seg_mask : {{}}, hires_fluxmod : {<<>>},
                 artifacts : {FALSE}, written : {{}}, error : {"none"}]

\* Step 2: magnify the low-res image and register the high-res images.
Resize ==
    /\ task.stage = "flux" /\ task.pc = "resize"
    /\ task' = [task EXCEPT !.pc = "extract",
                            !.written = IF task.skip_resize THEN {}
                                        ELSE StageFiles(1, "mrf")]
    /\ UNCHANGED TileVars

\* Step 3 with skip_SE: _hires_3.fits and _colratio.fits are read back.
LoadSaved ==
    /\ task.stage = "flux" /\ task.pc = "extract" /\ task.skip_SE
    /\ \E h3 \in Arrays(SavedPix), cr \in Arrays(SavedRatios) :
          task' = [task EXCEPT !.pc = "objects", !.hires_3 = h3, !.col_ratio = cr]
    /\ UNCHANGED TileVars

\* Steps 3 and 4 without skip_SE: the flux models of the two bands and the
\* colour correction.
ColorCorrection ==
    /\ task.stage = "flux" /\ task.pc = "extract" /\ ~task.skip_SE
    /\ \E b_imflux \in Arrays(Fluxes), r_imflux \in Arrays(Fluxes),
          color_term \in ColorTerms :
          LET col_ratio == ColRatio(b_imflux, r_imflux)
              median_col == MedianCol(col_ratio)
              fluxratio == FluxRatio(col_ratio, median_col)
          IN  task' = [task EXCEPT
                         !.pc = "band",
                         !.col_ratio = col_ratio,
                         !.median_col = median_col,
                         !.col_correct = ColCorrect(fluxratio, color_term),
                         !.artifacts = \E k \in 1..NPix :
                                          \/ ~IsFinite(b_imflux[k])
                                          \/ ~IsFinite(r_imflux[k])
                                          \/ ~NonZero(r_imflux[k]),
                         !.written = @ \cup {"_colratio.fits", "_colcorrect.fits"}]
    /\ UNCHANGED TileVars

\* The band of the low-res image picks the image that is corrected.
BandSelect ==
    /\ task.stage = "flux" /\ task.pc = "band"
    /\ IF task.band \in {"r", "g"}
       THEN \E img \in Arrays(ImagePix) :
               task' = [task EXCEPT
                          !.pc = "objects",
                          !.hires_3 = [k \in 1..NPix |-> FMul(img[k], task.col_correct[k])],
                          !.written = @ \cup {"_hires_3.fits"}]
       ELSE task' = [task EXCEPT !.pc = "failed", !.error = "ValueError"]
    /\ UNCHANGED TileVars

\* Steps 5 to 7: objects, segmentation map, grown mask and flux model.
BuildFluxmod ==
    /\ task.stage = "flux" /\ task.pc = "objects"
    /\ \E seg \in SUBSET Cells(NPix, 1), thr \in Thresholds :
          LET mask == {c \in seg : NonZero(task.col_ratio[c[1] + 1])}
              seg_mask == GrowMask(mask, NPix, 1, thr)
          IN  task' = [task EXCEPT
                         !.pc = "done",
                         !.seg_mask = seg_mask,
                         !.hires_fluxmod = FluxMod(seg_mask, task.hires_3),
                         !.written = @ \cup {"_hires_obj_cat.fits", "_bright_stars_3.fits",
                                            "_seg_3.fits", "_hires_fluxmod.fits"}]
    /\ UNCHANGED TileVars

FluxNext ==
    \/ Resize
    \/ LoadSaved
    \/ ColorCorrection
    \/ BandSelect
    \/ BuildFluxmod

FluxSpec == FluxInit /\ [][FluxNext]_vars

----------------------------------------------------------------------------
(* The mask growth of step 7 alone, on every binary mask of a MaskW x      *)
(* MaskH image, applied once and then once more to its own result.         *)

MaskW == 3
MaskH == 2

GrowInit ==
    /\ NoTileRun
    /\ task \in [stage : {"grow"}, pc : {"given"},
                 mask : SUBSET Cells(MaskW, MaskH), thr : Thresholds,
                 grown : {{}}, regrown : {{}}]

Grow ==
    /\ task.stage = "grow" /\ task.pc = "given"
    /\ task' = [task EXCEPT !.pc = "grown",
                            !.grown = GrowMask(task.mask, MaskW, MaskH, task.thr)]
    /\ UNCHANGED TileVars

GrowAgain ==
    /\ task.stage = "grow" /\ task.pc = "grown"
    /\ task' = [task EXCEPT !.pc = "regrown",
                            !.regrown = GrowMask(task.grown, MaskW, MaskH, task.thr)]
    /\ UNCHANGED TileVars

GrowNext ==
    \/ Grow
    \/ GrowAgain

GrowSpec == GrowInit /\ [][GrowNext]_vars

----------------------------------------------------------------------------
(* MrfTask.run, step 10: the stack of bright stars and the median PSF, on  *)
(* cutouts of one row of 2 * halosize + 1 pixels, symmetric about the      *)
(* centre.                                                                 *)

MaxStars == 2

\* config.starhalo.halosize, config.starhalo.edgesize, Box2DKernel(1)
halosize == 2
edgesize == 1
BoxWidth == 1

size == 2 * halosize + 1

\* x + y and x - y
FPlus(x, y) ==
    IF isnan(x) \/ isnan(y) THEN NaN
    ELSE IF isinf(x) THEN (IF isinf(y) /\ y # x THEN NaN ELSE x)
    ELSE IF isinf(y) THEN y
    ELSE FAdd(x, y)
FSub(x, y) == FPlus(x, FMul(Num(-1), y))

\* np.sum of the entries of a at the indices in S
RECURSIVE FSum(_, _)
FSum(a, S) ==
    IF S = {} THEN Num(0)
    ELSE LET k == CHOOSE q \in S : TRUE IN FPlus(a[k], FSum(a, S \ {k}))

\* Pixels of a normalised cutout: get_masked_image(cval) / flux, where cval
\* may be NaN.
PatchPix == {NaN, Num(1), Num(3)}

\* The cutout with the radial profile v: v[d + 1] at d pixels from the centre.
Profile(v) == [k \in 1..size |-> v[Abs(k - (halosize + 1)) + 1]]
Patches == {Profile(v) : v \in [1..(halosize + 1) -> PatchPix]}

\* np.ones((size, size)) * 1e9
Sentinel == [k \in 1..size |-> Num(1000000000)]

RECURSIVE Rows(_, _, _)
Rows(stack, keep, k) ==
    IF k > Len(stack) THEN <<>>
    ELSE (IF k \in keep THEN <<stack[k]>> ELSE <<>>) \o Rows(stack, keep, k + 1)

\* Mutant of DeleteRows: no row is deleted.
DeleteRows_None(stack, bad) == stack

\* np.delete(stack_set, bad_indices, axis=0); bad_indices counts from 0.
DeleteRows(stack, bad) ==
    Rows(stack, {k \in 1..Len(stack) : \A q \in 1..Len(bad) : bad[q] # k - 1}, 1)

\* Mutant of MedianPsf: the rows are added up.
MedianPsf_Sum(stack) ==
    [k \in 1..size |-> FSum([q \in 1..Len(stack) |-> stack[q][k]], 1..Len(stack))]

\* np.nanmedian(stack_set, axis=0)
MedianPsf(stack) ==
    [k \in 1..size |-> nanmedian([q \in 1..Len(stack) |-> stack[q][k]], 1..Len(stack))]

\* The edge pixels of a cutout.
EdgeCells(edge) == {k \in 1..size : k <= edge \/ k > size - edge}

\* mrf.utils.psf_bkgsub: the background estimated on the edge pixels is
\* subtracted from every pixel.
psf_bkgsub(psf, edge) ==
    [k \in 1..size |-> FSub(psf[k], nanmedian(psf, EdgeCells(edge)))]

\* astropy.convolution.convolve(psf, Box2DKernel(width)): normalised box,
\* zeros beyond the boundary, NaN pixels interpolated from the pixels under
\* the kernel.
convolve(psf, width) ==
    LET pad  == [k \in (1 - width)..(size + width) |->
                    IF k \in 1..size THEN psf[k] ELSE Num(0)]
        Win(k) == {q \in (k - (width - 1) \div 2)..(k + (width - 1) \div 2) : ~isnan(pad[q])}
    IN  [k \in 1..size |->
            IF Win(k) = {} THEN NaN
            ELSE FDiv(FSum(pad, Win(k)), Num(Cardinality(Win(k))))]

StackInit ==
    /\ NoTileRun
    /\ task \in [stage : {"stack"}, pc : {"loop"}, n : 0..MaxStars, i : {0},
                 patches : {<<>>}, failed : {{}},
                 stack_set : {<<>>}, bad_indices : {<<>>},
                 nanmedian : {<<>>}, median_psf : {<<>>}, error : {"none"}]

\* One pass of `for i, obj in enumerate(psf_cat)`; stack_set starts as
\* np.zeros((len(psf_cat), size, size)).
StackStar ==
    /\ task.stage = "stack" /\ task.pc = "loop" /\ task.i < task.n
    /\ \E raised \in BOOLEAN, patch \in Patches :
          LET zeros == [k \in 1..task.n |-> [c \in 1..size |-> Num(0)]]
              stack == IF task.i = 0 THEN zeros ELSE task.stack_set
          IN  task' = [task EXCEPT
                 !.i = task.i + 1,
                 !.patches = Append(task.patches, IF raised THEN Sentinel ELSE patch),
                 !.failed = IF raised THEN task.failed \cup {task.i} ELSE task.failed,
                 !.stack_set = [stack EXCEPT ![task.i + 1] =
                                    IF raised THEN Sentinel ELSE patch],
                 !.bad_indices = IF raised THEN Append(task.bad_indices, task.i)
                                 ELSE task.bad_indices]
    /\ UNCHANGED TileVars

\* astropy.stats.sigma_clip(stack_set, axis=0, maxiters=3): a masked array,
\* except that for an array of size 0 the releases of astropy differ: some
\* return the array as it is, an ndarray without .mask, the others a masked
\* array.
sigma_clip(stack) ==
    IF Len(stack) = 0 THEN {"ndarray", "MaskedArray"} ELSE {"MaskedArray"}

\* Lines 585-600, after the loop; sclip.data[sclip.mask] of line 591 raises
\* AttributeError when sclip is an ndarray.
Combine ==
    /\ task.stage = "stack" /\ task.pc = "loop" /\ task.i = task.n
    /\ LET stack == DeleteRows(task.stack_set, task.bad_indices)
           med   == MedianPsf(stack)
       IN  \E sclip \in sigma_clip(stack) :
             task' = [task EXCEPT
                !.pc = IF sclip = "ndarray" THEN "failed" ELSE "stacked",
                !.error = IF sclip = "ndarray" THEN "AttributeError" ELSE @,
                !.stack_set = stack,
                !.nanmedian = med,
                !.median_psf = convolve(psf_bkgsub(med, edgesize), BoxWidth)]
    /\ UNCHANGED TileVars

StackNext ==
    \/ StackStar
    \/ Combine

StackSpec == StackInit /\ [][StackNext]_vars

----------------------------------------------------------------------------
(* MrfTask.run, step 11: the halo template of _subtract_stackedPSF and of  *)
(* _subtract_widePSF, with the hybrid PSF and the catalogue query, on one  *)
(* row of pixels.                                                          *)

\* psf_size = 501 in the source; PsfSize pixels here.
PsfSize == 7
\* config.starhalo.hybrid_r
hybrid_r == 1
\* for attempt in range(3)
Attempts == 3

\* Pixels of the median PSF that reaches step 11: psf_bkgsub leaves zero and
\* negative pixels, a pixel masked in every stacked star stays NaN.
MedianPix == {NaN, Num(-1), Num(0), Num(1), Num(4)}
MedianPsfs == {Profile(v) : v \in [1..(halosize + 1) -> MedianPix]}

\* Power-law indices of the aureole.
AureoleIndex == {1, 2}

\* psf_e.drawImage(nx=psf_size, ...).array for the power-law index n: a
\* positive profile falling with the distance from int(psf_size / 2).
Aureole(n) ==
    [k \in 1..PsfSize |->
        FDiv(Num(1), FPow(Num(1 + Abs(k - (PsfSize \div 2 + 1))), n))]

\* a / np.sum(a) on the pixels 1..len
Normalize(a, len) == [k \in 1..len |-> FDiv(a[k], FSum(a, 1..len))]

\* mrf.utils.compute_Rnorm(img, None, cen, R)[1]: the median intensity of the
\* pixels in the annulus at radius R around cen.
compute_Rnorm(img, len, cen, R) ==
    nanmedian(img, {k \in 1..len : Abs(k - cen) = R})

\* The canvas pixels the inner PSF is placed on:
\* outer_cen - inner_cen .. outer_cen + inner_cen.
Block == {k \in 1..PsfSize : Abs(k - (PsfSize \div 2 + 1)) <= size \div 2}

\* Lines 762-794: the composite of the inner PSF inside hybrid_r and the
\* scaled aureole elsewhere, normalised to unit sum.
Composite(median_psf, outer_img) ==
    LET inner_cen == size \div 2 + 1
        outer_cen == PsfSize \div 2 + 1
        inner     == Normalize(median_psf, size)
        flux_inn  == compute_Rnorm(inner, size, inner_cen, hybrid_r)
        \* CircularAperture(inner_cen, hybrid_r): pixels it does not touch
        core      == [k \in 1..size |->
                        IF 2 * Abs(k - inner_cen) - 1 < 2 * hybrid_r
                        THEN inner[k] ELSE NaN]
        new0      == [k \in 1..PsfSize |->
                        IF k \in Block THEN core[k - outer_cen + inner_cen]
                        ELSE Num(0)]
        outer_psf == Normalize(outer_img, PsfSize)
        flux_out  == compute_Rnorm(outer_psf, PsfSize, outer_cen, hybrid_r)
        scale_factor == FDiv(flux_out, flux_inn)
        new1      == [k \in 1..PsfSize |->
                        IF isnan(new0[k]) THEN FDiv(outer_psf[k], scale_factor)
                        ELSE new0[k]]
        temp      == [k \in 1..PsfSize |->
                        IF k \in Block THEN Num(0) ELSE outer_psf[k]]
        new2      == [k \in 1..PsfSize |->
                        FPlus(new1[k], FDiv(temp[k], scale_factor))]
    IN  Normalize(new2, PsfSize)

\* Lines 795-797: factor and new_psf *= factor
Rescale(median_psf, composite) ==
    LET factor == FDiv(FSum(median_psf, 1..size), FSum(composite, Block))
    IN  [k \in 1..PsfSize |-> FMul(composite[k], factor)]

HaloInit ==
    /\ NoTileRun
    /\ task \in [stage : {"halo"}, pc : {"start"},
                 wide_psf : BOOLEAN, skip_mast : BOOLEAN,
                 median_psf : MedianPsfs, n_s : AureoleIndex,
                 composite : {<<>>}, new_psf : {<<>>}, template : {<<>>},
                 attempts : {0}, last : {"none"},
                 waits : {0},      \* waits made between attempts
                 error : {"none"}]

\* Lines 732-799 and the test of skip_mast.
BuildHybrid ==
    /\ task.stage = "halo" /\ task.pc = "start" /\ task.wide_psf
    /\ LET composite == Composite(task.median_psf, Aureole(task.n_s))
       IN  task' = [task EXCEPT
              !.composite = composite,
              !.new_psf = Rescale(task.median_psf, composite),
              !.pc = IF task.skip_mast THEN "catalog" ELSE "query"]
    /\ UNCHANGED TileVars

\* Lines 804-809: the catalogue is read from a file, which may be missing.
LoadCatalog ==
    /\ task.stage = "halo" /\ task.pc = "catalog"
    /\ \E readable \in BOOLEAN :
          task' = [task EXCEPT
             !.pc = IF readable THEN "render" ELSE "failed",
             !.error = IF readable THEN "none" ELSE "FileNotFoundError"]
    /\ UNCHANGED TileVars

\* One pass of `for attempt in range(3)`: ps1cone answers or raises the HTTP
\* error of a gateway time-out. `except HTTPError` names a class that is
\* imported neither by the module nor by this function, so matching the
\* exception raises NameError. After Attempts passes without a break, the
\* else branch of the loop calls sys.exit.
Query ==
    /\ task.stage = "halo" /\ task.pc = "query"
    /\ IF task.attempts < Attempts
       THEN \E answer \in {"ok", "HTTPError"} :
               task' = [task EXCEPT
                  !.attempts = task.attempts + 1,
                  !.last = answer,
                  !.pc = IF answer = "ok" THEN "render" ELSE "failed",
                  !.error = IF answer = "ok" THEN "none" ELSE "NameError"]
       ELSE task' = [task EXCEPT !.pc = "failed", !.error = "SystemExit"]
    /\ UNCHANGED TileVars

\* Lines 875-895: new_psf is the template that is scaled and added.
RenderWide ==
    /\ task.stage = "halo" /\ task.pc = "render"
    /\ task' = [task EXCEPT !.pc = "done", !.template = task.new_psf]
    /\ UNCHANGED TileVars

\* Lines 688-703: median_psf is the template that is scaled and added.
RenderStacked ==
    /\ task.stage = "halo" /\ task.pc = "start" /\ ~task.wide_psf
    /\ task' = [task EXCEPT !.pc = "done", !.template = task.median_psf]
    /\ UNCHANGED TileVars

HaloNext ==
    \/ BuildHybrid
    \/ LoadCatalog
    \/ Query
    \/ RenderWide
    \/ RenderStacked

HaloSpec == HaloInit /\ [][HaloNext]_vars

----------------------------------------------------------------------------
(* The halo canvas of _subtract_stackedPSF and _subtract_widePSF: each     *)
(* star of bright_star_cat adds the shifted, scaled template to a padded   *)
(* row of pixels, which is then cropped to the frame of FrameW pixels.     *)
(* Positions are doubled, so that x = 1.5 is 3.                            *)

MaxCat == 2
FrameW == 4

\* Star positions (doubled): in the frame, and so far outside it that the
\* template would not touch the frame.
Positions == {-16, 2, 3, 14}
\* obj['mag'] (doubled): 15, 15.5, 16
Mags == {30, 31, 32}
\* obj[band + 'MeanPSFMag']: 0 stands for the masked entry of a star without
\* a match in the Pan-STARRS catalogue, which is falsy; magnitudes of matched
\* stars are positive.
Ps1Mags == {0, 14, 17}
CatStars == [x2 : Positions, flux : {2}, mag2 : Mags, ps1 : Ps1Mags]

\* The template and the half-size the canvas is padded with:
\* median_psf and halosize, or new_psf and int(psf_size / 2).
TemplateOf(wide) ==
    IF wide THEN [k \in 1..PsfSize |-> Num(4 - Abs(k - (PsfSize \div 2 + 1)))]
    ELSE [k \in 1..size |-> Num(3 - Abs(k - (halosize + 1)))]
HalfOf(wide) == IF wide THEN PsfSize \div 2 ELSE halosize
\* np.zeros((ny + 2 * halosize, ...)) or np.zeros((ny + psf_size, ...))
CanvasLen(wide) == IF wide THEN FrameW + PsfSize ELSE FrameW + 2 * halosize

\* x.astype(np.int) of the doubled position x2: truncation towards zero.
x_int(x2) == IF x2 >= 0 THEN x2 \div 2 ELSE -((-x2) \div 2)

\* Celestial.shift_image by frac2 / 2 pixels (frac2 in -1..1): fractional-
\* pixel interpolation, with nothing beyond the ends of the image.
shift_image(img, frac2) ==
    LET at(k) == IF k \in DOMAIN img THEN img[k] ELSE Num(0)
    IN  [k \in DOMAIN img |->
            IF frac2 = 0 THEN img[k]
            ELSE FDiv(FPlus(at(k), at(k - frac2)), Num(2))]

\* The indices (from 0) that a[start:stop] selects in an array of n entries:
\* a negative bound counts from the end.
SliceOf(start, stop, n) ==
    LET norm(b) == IF b < 0 THEN Max(b + n, 0) ELSE Min(b, n)
    IN  norm(start)..(norm(stop) - 1)

\* pfit: the flux the fitted relation gives for a Pan-STARRS magnitude.
FitFlux(ps1) == 100 - 5 * ps1

\* Mutant of NormOf: a star of magnitude 15.5 counts as bright.
NormOf_Inclusive(obj, wide) ==
    IF wide /\ obj.mag2 <= 31 /\ obj.ps1 # 0 THEN <<"fit", FitFlux(obj.ps1)>>
    ELSE <<"flux", obj.flux>>

\* Lines 886-892: norm; _subtract_stackedPSF always takes obj['flux'].
NormOf(obj, wide) ==
    IF wide /\ obj.mag2 < 31 /\ obj.ps1 # 0 THEN <<"fit", FitFlux(obj.ps1)>>
    ELSE <<"flux", obj.flux>>

CanvasInit ==
    /\ NoTileRun
    /\ \E wide \in BOOLEAN, n \in 1..MaxCat : \E cat \in [1..n -> CatStars] :
          task = [stage |-> "canvas", pc |-> "loop", wide_psf |-> wide,
                  cat |-> cat, i |-> 0,
                  im_halos_padded |-> [k \in 1..CanvasLen(wide) |-> Num(0)],
                  norms |-> <<>>, im_halos |-> <<>>, error |-> "none"]

\* One pass of `for i, obj in enumerate(bright_star_cat)`: the in-place
\* addition raises ValueError when the slice has not the template's length.
AddStar ==
    /\ task.stage = "canvas" /\ task.pc = "loop" /\ task.i < Len(task.cat)
    /\ LET obj   == task.cat[task.i + 1]
           xi    == x_int(obj.x2)
           half  == HalfOf(task.wide_psf)
           spsf  == shift_image(TemplateOf(task.wide_psf), obj.x2 - 2 * xi)
           norm  == NormOf(obj, task.wide_psf)
           start == (xi + half) - half
           stop  == (xi + half) + half + 1
           idx   == SliceOf(start, stop, CanvasLen(task.wide_psf))
           first == IF start < 0 THEN start + CanvasLen(task.wide_psf) ELSE start
       IN  IF Cardinality(idx) = Len(spsf)
           THEN task' = [task EXCEPT
                   !.i = task.i + 1,
                   !.norms = Append(task.norms, norm),
                   !.im_halos_padded =
                       [k \in 1..CanvasLen(task.wide_psf) |->
                           IF (k - 1) \in idx
                           THEN FPlus(task.im_halos_padded[k],
                                      FMul(spsf[k - first], Num(norm[2])))
                           ELSE task.im_halos_padded[k]]]
           ELSE task' = [task EXCEPT !.pc = "failed", !.error = "ValueError"]
    /\ UNCHANGED TileVars

\* Lines 705 and 897: the canvas cropped to the frame.
CropHalos ==
    /\ task.stage = "canvas" /\ task.pc = "loop" /\ task.i = Len(task.cat)
    /\ task' = [task EXCEPT
          !.pc = "done",
          !.im_halos = [k \in 1..FrameW |->
                           task.im_halos_padded[k + HalfOf(task.wide_psf)]]]
    /\ UNCHANGED TileVars

CanvasNext ==
    \/ AddStar
    \/ CropHalos

CanvasSpec == CanvasInit /\ [][CanvasNext]_vars

----------------------------------------------------------------------------
(* MrfTask.run from its entry to its return, with the stages between the   *)
(* entry assertion and the halo subtraction taken as done: the assertion   *)
(* on wide_psf, step 12 (cleaning), the removal of the temporary files,    *)
(* step 13 (detection depth) and the result plot, on one row of CleanW     *)
(* pixels.  model_mask is the thresholded footprint of lines 614-617; a    *)
(* local variable of run is usable once its name is in task.defined.       *)

CleanW == 3
DiskR == 0

Datasets == {"df", "Dragonfly", "SDSS"}

\* str.lower() on the dataset names of the model.
lower(s) ==
    CASE s = "Dragonfly" -> "dragonfly"
      [] s = "SDSS"      -> "sdss"
      [] OTHER           -> s

\* Lines 231-233: the condition of the assert.
WidePsfAllowed(dataset, wide) ==
    \/ /\ \/ lower(dataset) # "df"
          \/ lower(dataset) # "dragonfly"
       /\ wide = TRUE
    \/ wide = FALSE

NoiseVals == {-1, 1}

Images == {[k \in 1..CleanW |-> 5], [k \in 1..CleanW |-> k + 1]}

\* mrf.utils.bright_star_mask: the mask with a disk of radius DiskR added
\* around every bright star.
bright_star_mask(mask, cat) ==
    mask \cup {k \in 1..CleanW : \E s \in cat : Abs(k - s) <= DiskR}

\* Lines 622-623: convolve(totmask, Box2DKernel(2)) and totmask > 0 -> 1.
BoxGrow(mask) ==
    {k \in 1..CleanW : \E m \in mask : Abs(k - m) <= 1}

\* Lines 619-623.
TotMask(model_mask, cat) == BoxGrow(bright_star_mask(model_mask, cat))

\* Line 630: img_sub * (~totmask.astype(bool)).
Blank(img, mask) == [k \in 1..CleanW |-> IF k \in mask THEN 0 ELSE img[k]]

\* mrf.utils.img_replace_with_noise: the masked pixels take the sampled
\* values noise[k]; the others are kept.
img_replace_with_noise(img, mask, noise) ==
    [k \in 1..CleanW |-> IF k \in mask THEN noise[k] ELSE img[k]]

RunInit ==
    /\ NoTileRun
    /\ \E ds \in Datasets, wide, ci, cf, rn \in BOOLEAN,
          mm \in SUBSET (1..CleanW), star \in 0..CleanW, img \in Images :
          task = [stage |-> "run", pc |-> "entry", pass |-> 1,
                  dataset |-> ds, wide_psf |-> wide,
                  clean_img |-> ci, clean_file |-> cf,
                  replace_with_noise |-> rn,
                  model_mask |-> mm,
                  bright_star_cat |-> IF star = 0 THEN {} ELSE {star},
                  img_sub |-> img,
                  defined |-> {}, totmask |-> {}, final_image |-> <<>>,
                  temp_files |-> FALSE, saved |-> {},
                  returned |-> FALSE, error |-> "none", first |-> <<>>]

\* Lines 229-233, then steps 1 to 11, which succeed here and leave
\* img_sub, lowres_model and the temporary files.
Enter ==
    /\ task.stage = "run" /\ task.pc = "entry"
    /\ IF WidePsfAllowed(task.dataset, task.wide_psf)
       THEN task' = [task EXCEPT !.pc = "clean",
                                 !.defined = {"img_sub", "lowres_model"},
                                 !.temp_files = TRUE]
       ELSE task' = [task EXCEPT !.pc = "failed",
                                 !.error = "AssertionError"]
    /\ UNCHANGED TileVars

\* Lines 611-633: step 12.
Clean ==
    /\ task.stage = "run" /\ task.pc = "clean"
    /\ IF task.clean_img
       THEN LET tot == TotMask(task.model_mask, task.bright_star_cat)
            IN  \E noise \in [tot -> NoiseVals] :
                  task' = [task EXCEPT
                     !.pc = "delete",
                     !.totmask = tot,
                     !.final_image =
                         IF task.replace_with_noise
                         THEN img_replace_with_noise(task.img_sub, tot, noise)
                         ELSE Blank(task.img_sub, tot),
                     !.defined = @ \cup {"model_mask", "totmask",
                                         "final_image"},
                     !.saved = {"_final.fits", "_mask.fits"}]
       ELSE task' = [task EXCEPT !.pc = "delete"]
    /\ UNCHANGED TileVars

\* Lines 634-637: os.system('rm -rf _*.fits').
DeleteTemp ==
    /\ task.stage = "run" /\ task.pc = "delete"
    /\ task' = [task EXCEPT
          !.pc = "depth",
          !.temp_files = IF task.clean_file THEN FALSE ELSE @]
    /\ UNCHANGED TileVars

\* Lines 639-643: cal_sbcontrast(final_image, totmask.astype(int), ...).
Depth ==
    /\ task.stage = "run" /\ task.pc = "depth"
    /\ IF {"final_image", "totmask"} \subseteq task.defined
       THEN task' = [task EXCEPT !.pc = "plot"]
       ELSE task' = [task EXCEPT !.pc = "failed",
                                 !.error = "UnboundLocalError"]
    /\ UNCHANGED TileVars

\* Lines 645-668: the plot of lowres_model and final_image, return results.
PlotAndReturn ==
    /\ task.stage = "run" /\ task.pc = "plot"
    /\ IF {"final_image", "lowres_model"} \subseteq task.defined
       THEN task' = [task EXCEPT !.pc = "done", !.returned = TRUE,
                                 !.saved = @ \cup {"_result.png"}]
       ELSE task' = [task EXCEPT !.pc = "failed",
                                 !.error = "UnboundLocalError"]
    /\ UNCHANGED TileVars

\* The same call of run once more, on the same inputs and configuration;
\* the mask and the final image of the first call are kept in task.first.
RunAgain ==
    /\ task.stage = "run" /\ task.pc = "done" /\ task.pass = 1
    /\ task' = [task EXCEPT
          !.pc = "entry", !.pass = 2,
          !.first = <<task.totmask, task.final_image>>,
          !.defined = {}, !.totmask = {}, !.final_image = <<>>,
          !.temp_files = FALSE, !.saved = {}, !.returned = FALSE]
    /\ UNCHANGED TileVars

RunNext ==
    \/ Enter
    \/ Clean
    \/ DeleteTemp
    \/ Depth
    \/ PlotAndReturn
    \/ RunAgain

RunSpec == RunInit /\ [][RunNext]_vars

----------------------------------------------------------------------------
(* MrfTask.run, the selection of the stars to stack (lines 533-551), on    *)
(* catalogues of at most MaxSel stars.  Magnitudes are kept in tenths      *)
(* (mag = 125 stands for 12.5).                                            *)

MaxSel == 2

\* config.starhalo.padsize, fwhm_lim, bright_lim; the floor 12.0; the shape
\* of res.image.
padsize == 2
fwhm_lim == 4
bright_lim == 170
SatFloor == 120
nx == 6
ny == 6

SelStars == [fwhm_custom : {3, 4}, mag : {120, 125, 170}, flux : {1, 2},
             xy : {<<3, 3>>, <<2, 3>>, <<4, 3>>, <<3, 2>>, <<3, 4>>}]

\* Lines 537-540.
GoodStar(obj) ==
    /\ obj.fwhm_custom < fwhm_lim
    /\ obj.mag < bright_lim
    /\ obj.mag > SatFloor

\* Lines 543-544.
non_edge_flag(obj) ==
    /\ obj.xy[1] > padsize /\ obj.xy[1] < nx - padsize
    /\ obj.xy[2] > padsize /\ obj.xy[2] < ny - padsize

\* cat[flag]: the rows of cat that are in keep, in the order of cat.
RECURSIVE Filtered(_, _, _)
Filtered(cat, keep, k) ==
    IF k > Len(cat) THEN <<>>
    ELSE (IF cat[k] \in keep THEN <<cat[k]>> ELSE <<>>) \o Filtered(cat, keep, k + 1)

\* Lines 546-547: psf_cat.sort('flux'); psf_cat.reverse().  The orders the
\* rows of cat can be left in: flux never increases; the order of rows of
\* equal flux is not fixed by the sort.
SortedByFluxReversed(cat) ==
    {[k \in 1..Len(cat) |-> cat[p[k]]] :
        p \in {r \in [1..Len(cat) -> 1..Len(cat)] :
                 /\ \A a, b \in 1..Len(cat) : a # b => r[a] # r[b]
                 /\ \A a \in 1..(Len(cat) - 1) :
                        cat[r[a]].flux >= cat[r[a + 1]].flux}}

\* Line 548: psf_cat[:n].
FirstRows(cat, n) == SubSeq(cat, 1, Min(n, Len(cat)))

SelectInit ==
    /\ NoTileRun
    /\ \E n \in 0..MaxSel, ns \in 1..MaxSel : \E cat \in [1..n -> SelStars] :
          task = [stage |-> "select", pc |-> "catalog",
                  bright_star_cat |-> cat, n_stack |-> ns, psf_cat |-> <<>>]

\* Lines 533-551.
Select ==
    /\ task.stage = "select" /\ task.pc = "catalog"
    /\ LET good == Filtered(task.bright_star_cat, {obj \in SelStars : GoodStar(obj)}, 1)
           kept == Filtered(good, {obj \in SelStars : non_edge_flag(obj)}, 1)
       IN  \E sorted \in SortedByFluxReversed(kept) :
             task' = [task EXCEPT !.pc = "selected",
                                  !.psf_cat = FirstRows(sorted, task.n_stack)]
    /\ UNCHANGED TileVars

SelectNext == Select

SelectSpec == SelectInit /\ [][SelectNext]_vars

----------------------------------------------------------------------------
(* Claims.                                                                 *)

GridKnown == tilemode = "Tiled" /\ N_tiles > 0
Ended == pc \in {"done", "failed"}
AfterMrf == {"trim_enter", "trim", "stitch_image", "stitch_mask", "combine", "done"}
InList(s, x) == \E n \in 1..Len(s) : s[n] = x

\* C1: the non-overlap boxes of the grid cover every pixel of the reference
\* frame exactly once (no gap, no double coverage).  A box holds the pixels
\* its centre and size select, xmin <= p < xmax.
C1_BoxesPartitionFrame ==
    GridKnown =>
        \A px \in 0..(highres_x - 1) : \A py \in 0..(highres_y - 1) :
            Cardinality({t \in 0..(N_tiles - 1) : InBox(NonOverlapBox(t), px, py)}) = 1

\* C2: the tiling state is decided once and kept; it is Tiled when a
\* dimension of the high-res frame exceeds 1.5 * max_size and NotTiled when
\* both are below it; with max_size 8000, 7999 gives NotTiled and 12001
\* gives Tiled.
C2_DecisionRight ==
    tilemode # "undecided" =>
        /\ (2 * hdr_g[1] > 3 * max_size \/ 2 * hdr_g[2] > 3 * max_size) => tilemode = "Tiled"
        /\ (2 * hdr_g[1] < 3 * max_size /\ 2 * hdr_g[2] < 3 * max_size) => tilemode = "NotTiled"
        /\ (max_size = 8000 /\ hdr_g = <<7999, 7999>>) => tilemode = "NotTiled"
        /\ (max_size = 8000 /\ hdr_g = <<12001, 12001>>) => tilemode = "Tiled"

KnownRecoverable == {"GalSimValueError", "AttributeError", "HTTPError"}

\* C4: a tile whose pipeline fails with a known recoverable condition is put
\* on bad_tiles and the loop goes on with the next tile; a loop that is left
\* normally has invoked the pipeline for every tile.
C4_LoopComplete ==
    (pc \in AfterMrf /\ "mrf" \in executed) =>
        /\ Len(result) = N_tiles - skipped
        /\ \A k \in 1..Len(result) :
              result[k] \in KnownRecoverable <=> InList(bad_tiles, k - 1)

C4_RecoverableFailureIsIsolated ==
    /\ []C4_LoopComplete
    /\ [][(Len(result') = Len(result) + 1 /\ result'[Len(result')] \in KnownRecoverable)
            => /\ bad_tiles' = Append(bad_tiles, i)
               /\ pc' = "mrf"
               /\ i' = i + 1]_vars

\* C4 witness: tile 0 failed, was recorded, and a later tile ran.
C4_Witness ==
    /\ pc \in AfterMrf /\ bad_tiles = <<0>>
    /\ Len(result) >= 2 /\ result[1] \in KnownRecoverable /\ result[2] = "ok"

\* C5: with at least one good tile and the others bad (a known recoverable
\* condition each), no tile skipped and no stage switched off, a bad tile
\* does not abort the trim stage that leads to the mosaic.
C5_BadTilesDoNotAbortMosaic ==
    (/\ tilemode = "Tiled" /\ skipped = 0 /\ bad_tiles # <<>>
     /\ {"cut", "rebin", "mrf", "trim"} \subseteq executed
     /\ \E k \in 1..Len(result) : result[k] = "ok"
     /\ \A k \in 1..Len(result) : result[k] \in KnownRecoverable \cup {"ok"})
    => ~(pc = "failed" /\ error.stage = "trim" /\ InList(bad_tiles, error.index))

\* C6: with k >= 1 tiles skipped for want of overlap, every later loop runs
\* over the j tiles that were created, and no error comes from the skipped
\* ones.
C6_SkippedTilesAreDroppedEverywhere ==
    (skipped >= 1 /\ pc \notin {"crop", "ps1", "decide", "grid", "cut"}) =>
        /\ pc \in {"rebin", "mrf", "trim"} => i <= j
        /\ ~(pc = "failed" /\ error.stage \in {"rebin", "mrf", "trim"} /\ error.index >= j)

\* The grid index of the k-th created tile (k from 0).
CreatedTiles == {t \in 0..(N_tiles - 1) : skip_cut_tile \/ ~NoOverlap(OverlapBox(t))}
GridIndexOf(k) ==
    CHOOSE t \in CreatedTiles : Cardinality({u \in CreatedTiles : u < t}) = k

\* C7: the trim stage cuts every tile with the centre and size of the
\* tile's non-overlap box.
C7_TrimUsesNonOverlapBox ==
    \A k \in 1..Len(trim_used) :
        LET b == NonOverlapBox(GridIndexOf(k - 1))
        IN  /\ trim_used[k].xcen = Cen2X(b) /\ trim_used[k].ycen = Cen2Y(b)
            /\ trim_used[k].xlen = SizeX(b) * cd11
            /\ trim_used[k].ylen = SizeY(b) * cd11

\* The trimmed tiles of one kind that this run has produced.
TrimmedFiles(imgtype) == {f \in files : \E k \in 0..(N_tiles - 1) : f = FinalName(imgtype, k)}

\* C8: after a trim stage that trimmed every tile, the files handed to
\* _stitch are exactly the trimmed tiles, for images and for masks.
C8_StitchListIsTrimmedTiles ==
    (Len(trim_used) = N_tiles /\ N_tiles > 0) =>
        \A n \in 1..Len(stitch) :
            stitch[n].imgtype \in {"image", "mask"} =>
                stitch[n].listed = TrimmedFiles(stitch[n].imgtype)

\* C9: with either method the image tiles are combined by their mean and
\* the stitched mask holds only 0 and 1.
C9_MeanImageBinaryMask ==
    \A n \in 1..Len(stitch) :
        /\ (stitch[n].imgtype = "image" /\ stitch[n].written /\ stitch[n].tiles # {}) =>
              stitch[n].out[1] * Cardinality(stitch[n].tiles)
                  = SumOver(stitch[n].vals, stitch[n].tiles) * stitch[n].out[2]
        /\ (stitch[n].imgtype = "mask" /\ stitch[n].written) =>
              stitch[n].out \in {<<0, 1>>, <<1, 1>>}

\* C10: the pipeline runs of two different tiles write no common path.
C10_TileRunsWriteDisjointFiles ==
    \A a \in 1..Len(result) : \A b \in 1..Len(result) :
        a # b => TaskWrites(a - 1, result[a]) \cap TaskWrites(b - 1, result[b]) = {}

\* C13: a configuration error (here a stitch_method that is neither "swarp"
\* nor "reproject") ends the run before any stage has executed: nothing has
\* been computed or written when the error is raised.
C13_ConfigErrorBeforeAnyStage ==
    (pc = "failed" /\ error.kind = "ValueError") => (executed = {} /\ files = {})

\* C14: with a band that is neither "g" nor "r", MrfTask.run raises the
\* configuration error and builds no flux model, whatever the skip flags.
C14_BadBandRaises ==
    (task.stage = "flux" /\ task.band \notin {"g", "r"}) =>
        /\ task.hires_fluxmod = <<>>
        /\ task.pc \in {"done", "failed"} =>
              (task.pc = "failed" /\ task.error = "ValueError")

\* C15: whatever the flux estimates of the two bands (zero, negative, NaN,
\* infinite, no non-zero colour ratio at all), the colour ratio and the flux
\* model hold no NaN and no infinite pixel, and no error is raised for them.
C15_FluxModelFinite ==
    task.stage = "flux" =>
        /\ \A k \in 1..Len(task.col_ratio) : IsFinite(task.col_ratio[k])
        /\ \A k \in 1..Len(task.hires_fluxmod) : IsFinite(task.hires_fluxmod[k])
        /\ task.pc = "done" => Len(task.hires_fluxmod) = NPix
        /\ task.band \in {"g", "r"} => task.pc # "failed"

\* C15 witness: the inputs held artifacts, no colour ratio was non-zero
\* (the median is NaN, and so are the correction and the corrected image),
\* and the flux model was built.
C15_Witness ==
    /\ task.stage = "flux" /\ task.pc = "done" /\ ~task.skip_SE
    /\ task.artifacts /\ isnan(task.median_col)
    /\ \A k \in 1..NPix : isnan(task.col_correct[k]) /\ isnan(task.hires_3[k])

\* C16 as stated: growing the grown mask again, with the same kernel and
\* threshold, gives the grown mask back.
C16_GrowIdempotent ==
    (task.stage = "grow" /\ task.pc = "regrown") => task.regrown = task.grown

\* C16 as amended: for a threshold not above the central weight of the
\* kernel, growth only adds pixels: the grown mask contains the mask, and
\* the mask grown twice contains the grown mask.
C16_GrowExtensive ==
    (task.stage = "grow" /\ task.thr[1] * KernelSum <= KernelWeight(0, 0) * task.thr[2]) =>
        /\ task.pc \in {"grown", "regrown"} => task.mask \subseteq task.grown
        /\ task.pc = "regrown" => task.grown \subseteq task.regrown

\* C16 witness: a second application that added pixels to the grown mask.
C16_Witness ==
    /\ task.stage = "grow" /\ task.pc = "regrown"
    /\ task.thr[1] * KernelSum = KernelWeight(0, 0) * task.thr[2]
    /\ task.mask # {} /\ task.mask # task.grown
    /\ task.grown \subseteq task.regrown /\ task.grown # task.regrown

\* The patches of the stars that did not fail, in catalogue order.
RECURSIVE Survivors(_)
Survivors(k) ==
    IF k > Len(task.patches) THEN <<>>
    ELSE (IF (k - 1) \in task.failed THEN <<>> ELSE <<task.patches[k]>>) \o Survivors(k + 1)

\* C17: a star that raises never stops the loop; it is given the sentinel
\* and its index is recorded in bad_indices; the stack the median is taken
\* of holds exactly the patches of the stars that did not fail.
C17_FailedStarsAreExcluded ==
    task.stage = "stack" =>
        /\ task.pc = "loop" =>
              /\ Len(task.patches) = task.i
              /\ {task.bad_indices[q] : q \in 1..Len(task.bad_indices)} = task.failed
              /\ Len(task.bad_indices) = Cardinality(task.failed)
              /\ \A k \in 1..task.i :
                    (k - 1) \in task.failed => task.stack_set[k] = Sentinel
        /\ task.pc # "loop" =>
              /\ task.i = task.n /\ Len(task.patches) = task.n
              /\ task.stack_set = Survivors(1)
              /\ \A q \in 1..Len(task.stack_set) : task.stack_set[q] # Sentinel
              /\ task.nanmedian = MedianPsf(Survivors(1))

\* C17 witness: the first star raised, a later one did not, and the median
\* was taken.
C17_Witness ==
    /\ task.stage = "stack" /\ task.pc = "stacked"
    /\ 0 \in task.failed /\ Len(task.stack_set) >= 1
    /\ Len(task.stack_set) < task.n

\* The stack is one or more copies of one patch.
Copies ==
    /\ task.stage = "stack" /\ task.pc = "stacked"
    /\ Len(task.stack_set) >= 1
    /\ \A q \in 1..Len(task.stack_set) : task.stack_set[q] = task.stack_set[1]

\* C18 as stated: for a stack of copies of one patch, the median PSF the
\* stage produces is the patch, pixel for pixel.
C18_MedianPsfIsThePatch ==
    Copies => task.median_psf = task.stack_set[1]

\* C18 as amended: for a stack of copies of one patch, the per-pixel median
\* is the patch, and the median PSF the stage produces is the patch minus
\* the background estimated on its edge pixels.
C18_MedianIsThePatch ==
    Copies =>
        LET patch == task.stack_set[1]
        IN  /\ task.nanmedian = patch
            /\ \A k \in 1..size :
                  task.median_psf[k] = FSub(patch[k], nanmedian(patch, EdgeCells(edgesize)))

\* C18 witness: two copies of a patch with a background on its edge.
C18_Witness ==
    /\ Copies /\ Len(task.stack_set) = 2
    /\ task.stack_set[1] = <<Num(1), Num(1), Num(3), Num(1), Num(1)>>
    /\ task.median_psf = <<Num(0), Num(0), Num(2), Num(0), Num(0)>>

\* C11: the query is attempted at most Attempts times, never again after an
\* answer, and the run fails in the query only after Attempts failed
\* attempts.
C11_QueryRetriedUntilBound ==
    task.stage = "halo" =>
        /\ task.attempts <= Attempts
        /\ task.last = "ok" => task.pc \in {"render", "done"}
        /\ (task.pc = "failed" /\ task.error \in {"NameError", "SystemExit"}) =>
              task.attempts = Attempts

\* C12: a failed attempt that is not the last one is followed by a backoff
\* wait before the next attempt.
C12_BackoffAfterFailedAttempt ==
    [][(/\ task.stage = "halo" /\ task.pc = "query"
        /\ task'.attempts = task.attempts + 1
        /\ task'.last = "HTTPError" /\ task'.attempts < Attempts)
       => task'.waits = task.waits + 1]_vars

\* C19: the template that is scaled by a star's flux and added to the halo
\* canvas sums to one.
C19_TemplateSumsToUnity ==
    (task.stage = "halo" /\ task.pc = "done") =>
        FSum(task.template, DOMAIN task.template) = Num(1)

\* C20: the hybrid PSF summed over the pixels of the inner PSF equals the
\* sum of the median PSF.
C20_CoreFluxPreserved ==
    (task.stage = "halo" /\ task.new_psf # <<>>) =>
        FSum(task.new_psf, Block) = FSum(task.median_psf, 1..size)

\* C24: for every tile of the grid the overlap margin is not negative, the
\* non-overlap box lies in the box with the overlap added, that box lies in
\* the frame, and both boxes have a positive width and height.
C24_BoxesWellFormed ==
    GridKnown =>
        /\ Margin(overlap, len_x) >= 0 /\ Margin(overlap, len_y) >= 0
        /\ \A t \in 0..(N_tiles - 1) :
              LET b == NonOverlapBox(t)
                  o == OverlapBox(t)
              IN  /\ o.xmin <= b.xmin /\ b.xmax <= o.xmax
                  /\ o.ymin <= b.ymin /\ b.ymax <= o.ymax
                  /\ 0 <= o.xmin /\ o.xmax <= highres_x - 1
                  /\ 0 <= o.ymin /\ o.ymax <= highres_y - 1
                  /\ SizeX(b) > 0 /\ SizeY(b) > 0
                  /\ SizeX(o) > 0 /\ SizeY(o) > 0

\* C23: when a tiled run ends with tiles excluded (bad or skipped), their
\* number is part of what the run hands back.
C23_ExcludedCountReturned ==
    (Ended /\ tilemode = "Tiled" /\ Len(bad_tiles) + skipped > 0) =>
        InList(ReturnValue, Len(bad_tiles) + skipped)

\* The star lies in the frame; its whole template lies outside the frame.
InFrame(obj) == 0 <= obj.x2 /\ obj.x2 <= 2 * (FrameW - 1)
FullyOutside(obj, wide) ==
    \/ x_int(obj.x2) + HalfOf(wide) < 0
    \/ x_int(obj.x2) - HalfOf(wide) > FrameW - 1

\* What one star in the frame puts on frame pixel k (from 1): the template
\* shifted by the fraction of its position, times its norm.
HaloOf(obj, wide, k) ==
    LET xi   == x_int(obj.x2)
        spsf == shift_image(TemplateOf(wide), obj.x2 - 2 * xi)
        c    == k - 1 - xi + HalfOf(wide) + 1
    IN  IF c \in DOMAIN spsf THEN FMul(spsf[c], Num(NormOf(obj, wide)[2]))
        ELSE Num(0)

\* C21: with one star in the frame and one star fully outside it, the loop
\* ends without an error and the halo frame is the halo of the inside star
\* alone.
C21_OutsideStarAddsNothing ==
    (/\ task.stage = "canvas" /\ task.pc \in {"done", "failed"}
     /\ Len(task.cat) = 2
     /\ InFrame(task.cat[1]) /\ FullyOutside(task.cat[2], task.wide_psf)) =>
        /\ task.pc = "done"
        /\ \A k \in 1..FrameW :
              task.im_halos[k] = HaloOf(task.cat[1], task.wide_psf, k)

\* C27: a star's halo is scaled by the fitted flux exactly when its
\* magnitude is below 15.5 and it has a Pan-STARRS magnitude; in every
\* other case by its measured flux.
C27_NormSelection ==
    (task.stage = "canvas" /\ task.wide_psf) =>
        \A n \in 1..Len(task.norms) :
            LET obj == task.cat[n]
            IN  IF obj.mag2 < 31 /\ obj.ps1 # 0
                THEN task.norms[n] = <<"fit", FitFlux(obj.ps1)>>
                ELSE task.norms[n] = <<"flux", obj.flux>>

\* C27 witness: a star of magnitude exactly 15.5 with a Pan-STARRS
\* magnitude, scaled by its measured flux, after a brighter star scaled by
\* the fit.
C27_Witness ==
    /\ task.stage = "canvas" /\ task.wide_psf /\ task.pc = "done"
    /\ Len(task.norms) = 2
    /\ task.norms[1][1] = "fit"
    /\ task.cat[2].mag2 = 31 /\ task.cat[2].ps1 # 0 /\ task.norms[2][1] = "flux"

\* The one value the hybrid PSF is to hold at canvas pixel k before it is
\* normalised: the normalised median PSF within hybrid_r of the centre, the
\* normalised aureole times flux_inn / flux_out elsewhere.
Contribution(k) ==
    LET inner    == Normalize(task.median_psf, size)
        outer    == Normalize(Aureole(task.n_s), PsfSize)
        cen      == PsfSize \div 2 + 1
        flux_inn == compute_Rnorm(inner, size, size \div 2 + 1, hybrid_r)
        flux_out == compute_Rnorm(outer, PsfSize, cen, hybrid_r)
    IN  IF 2 * Abs(k - cen) - 1 < 2 * hybrid_r
        THEN inner[k - cen + size \div 2 + 1]
        ELSE FMul(outer[k], FDiv(flux_inn, flux_out))

\* C28: before the last rescaling every pixel of the hybrid PSF holds its
\* one contribution, over the sum of all of them, and none is NaN or
\* infinite.
C28_OneContributionPerPixel ==
    (task.stage = "halo" /\ task.composite # <<>>) =>
        \A k \in 1..PsfSize :
            /\ IsFinite(task.composite[k])
            /\ task.composite[k] =
                  FDiv(Contribution(k),
                       FSum([c \in 1..PsfSize |-> Contribution(c)], 1..PsfSize))

\* C29: a run with wide_psf = TRUE on a dataset that is neither "df" nor
\* "dragonfly" (in any case) is rejected by the entry assertion, before any
\* image is read; on a Dragonfly dataset, and with wide_psf = FALSE on any
\* dataset, the run is accepted.
C29_WidePsfOnlyForDragonfly ==
    (task.stage = "run" /\ task.pc # "entry") =>
        ((task.error = "AssertionError") <=>
            (task.wide_psf /\ lower(task.dataset) \notin {"df", "dragonfly"}))

\* C30: for both values of clean_img the run, once the halo subtraction has
\* succeeded, never fails in the steps after cleaning: the detection depth
\* and the plot only use local variables that were assigned.
C30_RunEndsForBothCleanSettings ==
    (task.stage = "run" /\ task.pc \notin {"entry"}
        /\ task.error # "AssertionError") =>
        task.error = "none"

\* C22: two runs of the cleaning stage on the same residual, model, star
\* catalogue and configuration give the same mask and the same final
\* image, with replace_with_noise on and off.
C22_CleaningDeterministic ==
    (task.stage = "run" /\ task.pass = 2 /\ task.pc = "done") =>
        task.first = <<task.totmask, task.final_image>>

\* C25: when no usable star is left for the stack (no candidate was
\* selected, or every candidate failed and was deleted), the run ends with
\* a failure the tile scheduler catches, and never goes on to the halo
\* subtraction with a PSF computed from the empty stack.
C25_EmptyStackFails ==
    (task.stage = "stack" /\ task.pc # "loop" /\ task.stack_set = <<>>) =>
        (task.pc = "failed" /\ task.error \in Caught)

\* A star the claim's four conditions let through: FWHM below fwhm_lim,
\* magnitude below bright_lim and above 12.0, and at least padsize pixels
\* from each edge of the frame.
Candidate(obj) ==
    /\ obj.fwhm_custom < fwhm_lim /\ obj.mag < bright_lim /\ obj.mag > SatFloor
    /\ obj.xy[1] >= padsize /\ nx - obj.xy[1] >= padsize
    /\ obj.xy[2] >= padsize /\ ny - obj.xy[2] >= padsize

\* C26: the stacking list holds only stars that meet the four conditions,
\* a star exactly padsize pixels from an edge included; it is the n_stack
\* stars of highest flux among those that meet them, in descending order
\* of flux.
C26_StackingList ==
    (task.stage = "select" /\ task.pc = "selected") =>
        LET cands == Filtered(task.bright_star_cat, {obj \in SelStars : Candidate(obj)}, 1)
            list  == task.psf_cat
        IN  /\ \A k \in 1..Len(list) : Candidate(list[k])
            /\ Len(list) = Min(task.n_stack, Len(cands))
            /\ \A k \in 1..(Len(list) - 1) : list[k].flux >= list[k + 1].flux
            /\ \A f \in {obj.flux : obj \in SelStars} :
                  Cardinality({k \in 1..Len(list) : list[k].flux > f})
                      = Min(task.n_stack,
                            Cardinality({k \in 1..Len(cands) : cands[k].flux > f}))

====
